---- MODULE Spec2Model ----
(***************************************************************************)
(* BOL OCR processor: the extraction service (server.js) and the upload    *)
(* client (App.tsx).  Text is modelled character by character as a         *)
(* sequence of one-character strings, so that the code-fence stripping,    *)
(* JSON.parse and the three fallback regular expressions are computed the  *)
(* way the code computes them.                                             *)
(***************************************************************************)
EXTENDS Integers, Sequences, FiniteSets, TLC

(***************************************************************************)
(* State                                                                   *)
(***************************************************************************)
\* the extraction service
VARIABLES
    now,        \* Date.now()
    disk,       \* uploads/: path -> the request whose bytes the file holds, 0 = no file
    pc,         \* where each request is: "new", "ocr", "recognizing", "model", "done"
    upload,     \* what each request posted
    imagePath,  \* req.file.path, NoPath when req.file is undefined
    ocrCalls,   \* calls of Tesseract.recognize made for the request
    modelCalls, \* calls of openai.chat.completions.create made for the request
    ocrSaw,     \* whose bytes Tesseract read, 0 = none
    modelSaw,   \* whose bytes readFileSync read, 0 = none
    text,       \* the recognised text
    reply,      \* the completion the model call returned
    fallback,   \* whether the catch block of the parse ran
    res         \* the responses sent, in order

\* processImageForBOLData's handling of one completion, on its own
VARIABLES
    given,      \* the completion handed to the try/catch
    returned    \* what it returned: [done, data, fallback]

\* the upload client: the state of App, and its requests
VARIABLES
    bolNumber, weight, weightType, isProcessing, dragOver, message, uploadedImage,
    reading,    \* the images a FileReader is still reading
    inflight    \* the files sent to /api/process-image whose fetch has not settled

(***************************************************************************)
(* Characters                                                              *)
(***************************************************************************)
QUOTE == "\""
NL == "\n"
\* one backtick character (three of them open or close a code fence)
BT == "BT"

Fence == <<BT, BT, BT>>
FenceJson == <<BT, BT, BT, "j", "s", "o", "n">>

\* the three property names the handler reads and the fallback looks for
kBolNumber == <<"b", "o", "l", "N", "u", "m", "b", "e", "r">>
kWeight == <<"w", "e", "i", "g", "h", "t">>
kWeightType == <<"w", "e", "i", "g", "h", "t", "T", "y", "p", "e">>
Fields == {"bolNumber", "weight", "weightType"}
KeyOf(f) ==
    CASE f = "bolNumber" -> kBolNumber
      [] f = "weight" -> kWeight
      [] f = "weightType" -> kWeightType

\* \s of a JavaScript regular expression and the white space trim() removes
IsSpace(c) == c \in {" ", NL, "\t", "\r"}

\* does the literal lit occur in s at index i
StartsWithAt(s, i, lit) ==
    /\ i >= 1
    /\ i + Len(lit) - 1 <= Len(s)
    /\ \A j \in 1..Len(lit) : s[i + j - 1] = lit[j]

RECURSIVE SkipSpace(_, _)
SkipSpace(s, i) ==
    IF i <= Len(s) /\ IsSpace(s[i]) THEN SkipSpace(s, i + 1) ELSE i

\* the first index >= i holding a double quote, Len(s) + 1 when there is none
RECURSIVE ScanToQuote(_, _)
ScanToQuote(s, i) ==
    IF i <= Len(s) /\ s[i] # QUOTE THEN ScanToQuote(s, i + 1) ELSE i

(***************************************************************************)
(* JSON values.  Every value is a record of the same three fields so that  *)
(* any two values can be compared.                                         *)
(*   t: "null", "true", "false", "str", "obj" or "undefined"               *)
(*   s: the characters of a string value                                   *)
(*   m: the members of an object, a sequence of <<key, value>> pairs       *)
(***************************************************************************)
JNull == [t |-> "null", s |-> <<>>, m |-> <<>>]
JTrue == [t |-> "true", s |-> <<>>, m |-> <<>>]
JFalse == [t |-> "false", s |-> <<>>, m |-> <<>>]
JStr(cs) == [t |-> "str", s |-> cs, m |-> <<>>]
JObj(ms) == [t |-> "obj", s |-> <<>>, m |-> ms]
\* JavaScript's undefined: what reading a missing property yields
Undefined == [t |-> "undefined", s |-> <<>>, m |-> <<>>]

\* obj[key] in JavaScript: the last member of that name (JSON.parse keeps
\* the last duplicate), undefined for a missing property or a primitive
RECURSIVE LookupFrom(_, _, _)
LookupFrom(ms, i, key) ==
    IF i = 0 THEN Undefined
    ELSE IF ms[i][1] = key THEN ms[i][2]
    ELSE LookupFrom(ms, i - 1, key)

GetProp(v, key) ==
    IF v.t = "obj" THEN LookupFrom(v.m, Len(v.m), key) ELSE Undefined

(***************************************************************************)
(* result.replace(/```json\n?/g, '').replace(/```\n?/g, '').trim()         *)
(***************************************************************************)
\* s.replace(/<lit>\n?/g, ''): every occurrence of lit, with the newline
\* that follows it when there is one, is removed, scanning left to right
RECURSIVE RemoveAllFrom(_, _, _)
RemoveAllFrom(s, i, lit) ==
    IF i > Len(s) THEN <<>>
    ELSE IF StartsWithAt(s, i, lit)
         THEN LET n == i + Len(lit)
              IN RemoveAllFrom(s, IF n <= Len(s) /\ s[n] = NL THEN n + 1 ELSE n, lit)
         ELSE <<s[i]>> \o RemoveAllFrom(s, i + 1, lit)

RECURSIVE LastNonSpace(_, _)
LastNonSpace(s, i) ==
    IF i >= 1 /\ IsSpace(s[i]) THEN LastNonSpace(s, i - 1) ELSE i

trim(s) == SubSeq(s, SkipSpace(s, 1), LastNonSpace(s, Len(s)))

\* a faulty variant, to test C5 against: only the bare fence is removed
stripFencesSkipJson(result) == trim(RemoveAllFrom(result, 1, Fence))

stripFences(result) ==
    trim(RemoveAllFrom(RemoveAllFrom(result, 1, FenceJson), 1, Fence))

(***************************************************************************)
(* JSON.parse, for texts over the characters the completions are written   *)
(* in: objects, strings without escapes, null, true, false.  A parse       *)
(* result is [ok, v, n]: whether a value was read, the value, and the      *)
(* index after it.                                                         *)
(***************************************************************************)
ParseFail == [ok |-> FALSE, v |-> Undefined, n |-> 0]
ParseOk(v, n) == [ok |-> TRUE, v |-> v, n |-> n]

\* JSON white space
IsJsonSpace(c) == c \in {" ", NL, "\t", "\r"}
RECURSIVE SkipJsonSpace(_, _)
SkipJsonSpace(s, i) ==
    IF i <= Len(s) /\ IsJsonSpace(s[i]) THEN SkipJsonSpace(s, i + 1) ELSE i

\* a string token starting at the quote at index i: up to the next quote,
\* with no raw control character inside
ParseString(s, i) ==
    IF ~(i <= Len(s) /\ s[i] = QUOTE) THEN ParseFail
    ELSE LET k == ScanToQuote(s, i + 1)
         IN IF k > Len(s) THEN ParseFail
            ELSE IF \E j \in (i + 1)..(k - 1) : s[j] \in {NL, "\t", "\r"}
                 THEN ParseFail
                 ELSE ParseOk(JStr(SubSeq(s, i + 1, k - 1)), k + 1)

RECURSIVE ParseValue(_, _)
RECURSIVE ParseMembers(_, _, _)

\* the members of an object after its first one was read: at index i there
\* is, after white space, either the closing brace or a comma and a member
ParseMember(s, i) ==
    LET k == ParseString(s, i)
        c == SkipJsonSpace(s, k.n)
    IN IF ~k.ok THEN ParseFail
       ELSE IF ~(c <= Len(s) /\ s[c] = ":") THEN ParseFail
       ELSE LET v == ParseValue(s, SkipJsonSpace(s, c + 1))
            IN IF ~v.ok THEN ParseFail
               ELSE ParseOk(<<k.v.s, v.v>>, v.n)

ParseMembers(s, i, acc) ==
    LET j == SkipJsonSpace(s, i)
    IN IF j > Len(s) THEN ParseFail
       ELSE IF s[j] = "}" THEN ParseOk(JObj(acc), j + 1)
       ELSE IF s[j] # "," THEN ParseFail
       ELSE LET mem == ParseMember(s, SkipJsonSpace(s, j + 1))
            IN IF ~mem.ok THEN ParseFail
               ELSE ParseMembers(s, mem.n, Append(acc, mem.v))

ParseObject(s, i) ==
    LET j == SkipJsonSpace(s, i + 1)
    IN IF j > Len(s) THEN ParseFail
       ELSE IF s[j] = "}" THEN ParseOk(JObj(<<>>), j + 1)
       ELSE LET mem == ParseMember(s, j)
            IN IF ~mem.ok THEN ParseFail
               ELSE ParseMembers(s, mem.n, <<mem.v>>)

ParseValue(s, i) ==
    IF i > Len(s) THEN ParseFail
    ELSE IF s[i] = "{" THEN ParseObject(s, i)
    ELSE IF s[i] = QUOTE THEN ParseString(s, i)
    ELSE IF StartsWithAt(s, i, <<"n", "u", "l", "l">>) THEN ParseOk(JNull, i + 4)
    ELSE IF StartsWithAt(s, i, <<"t", "r", "u", "e">>) THEN ParseOk(JTrue, i + 4)
    ELSE IF StartsWithAt(s, i, <<"f", "a", "l", "s", "e">>) THEN ParseOk(JFalse, i + 5)
    ELSE ParseFail

\* JSON.parse(json): [ok, v]; ok = FALSE stands for the SyntaxError thrown
JSONparse(json) ==
    LET p == ParseValue(json, SkipJsonSpace(json, 1))
    IN IF p.ok /\ SkipJsonSpace(json, p.n) = Len(json) + 1
       THEN [ok |-> TRUE, v |-> p.v]
       ELSE [ok |-> FALSE, v |-> Undefined]

(***************************************************************************)
(* result.match(/"<key>":\s*"([^"]+)"/)                                    *)
(***************************************************************************)
\* a faulty variant, to test C4 against: the pattern without ": after the key
KeyPatternNoColon(key) == <<QUOTE>> \o key

\* the literal the pattern of a field starts with: "<key>":
KeyPattern(key) == <<QUOTE>> \o key \o <<QUOTE, ":">>

\* the pattern tried at index i: <<capture>> when it matches there, <<>>
\* when it does not.  \s* and [^"]+ are greedy, and neither can give back a
\* character that lets the pattern match otherwise.
MatchAt(s, i, key) ==
    LET lit == KeyPattern(key)
        j == SkipSpace(s, i + Len(lit))
        k == ScanToQuote(s, j + 1)
    IN IF /\ StartsWithAt(s, i, lit)
          /\ j <= Len(s)
          /\ s[j] = QUOTE
          /\ k <= Len(s)
          /\ k > j + 1
       THEN <<SubSeq(s, j + 1, k - 1)>>
       ELSE <<>>

\* the leftmost match, as String.prototype.match returns it
RECURSIVE MatchFrom(_, _, _)
MatchFrom(s, i, key) ==
    IF i > Len(s) THEN <<>>
    ELSE LET m == MatchAt(s, i, key)
         IN IF m # <<>> THEN m ELSE MatchFrom(s, i + 1, key)

\* xMatch ? xMatch[1] : null
matchField(result, key) ==
    LET m == MatchFrom(result, 1, key)
    IN IF m # <<>> THEN JStr(m[1]) ELSE JNull

manualExtraction(result) ==
    JObj(<< <<kBolNumber, matchField(result, kBolNumber)>>,
            <<kWeight, matchField(result, kWeight)>>,
            <<kWeightType, matchField(result, kWeightType)>> >>)

(***************************************************************************)
(* The try/catch of processImageForBOLData on a textual completion:        *)
(* [data, fallback], the value returned and whether the catch block ran    *)
(***************************************************************************)
parseCompletion(result) ==
    LET p == JSONparse(stripFences(result))
    IN IF p.ok THEN [data |-> p.v, fallback |-> FALSE]
       ELSE [data |-> manualExtraction(result), fallback |-> TRUE]

(***************************************************************************)
(* The completions the language model is taken to return.  A completion    *)
(* is described by how it is wrapped and by what it says about each field; *)
(* Render gives its characters.                                            *)
(*   seg[f]: "absent"  the field is not mentioned                          *)
(*           "null"    "<f>": null                                         *)
(*           "value"   "<f>": "<ValueOf(f)>"                               *)
(*           "empty"   "<f>": ""                                           *)
(*   wrap:   "json"       {members}                                        *)
(*           "fenced"     ```json\n{members}\n```                          *)
(*           "prose"      Hi: {members}                                    *)
(*           "truncated"  {members} cut two characters short, as a         *)
(*                        completion that ran into max_tokens is           *)
(*           "bare"       the members alone, one per line                  *)
(*           "nullLiteral" the text null                                   *)
(*           "noContent"  message.content is null: there is no text        *)
(***************************************************************************)
Segs == {"absent", "null", "value", "empty"}
TextWraps == {"json", "fenced", "prose", "truncated", "bare"}
FieldOrder == <<"bolNumber", "weight", "weightType">>

ValueOf(f) ==
    CASE f = "bolNumber" -> <<"B", "7">>
      [] f = "weight" -> <<"5", " ", "l", "b">>
      [] f = "weightType" -> <<"N", "e", "t">>

Member(f, sg) ==
    <<QUOTE>> \o KeyOf(f) \o <<QUOTE, ":", " ">> \o
    (CASE sg = "null" -> <<"n", "u", "l", "l">>
       [] sg = "value" -> <<QUOTE>> \o ValueOf(f) \o <<QUOTE>>
       [] sg = "empty" -> <<QUOTE, QUOTE>>)

\* the members of the fields FieldOrder[i..3] that are mentioned, joined by sep
RECURSIVE MembersFrom(_, _, _, _)
MembersFrom(seg, i, sep, first) ==
    IF i > Len(FieldOrder) THEN <<>>
    ELSE LET f == FieldOrder[i]
         IN IF seg[f] = "absent" THEN MembersFrom(seg, i + 1, sep, first)
            ELSE (IF first THEN <<>> ELSE sep) \o Member(f, seg[f])
                 \o MembersFrom(seg, i + 1, sep, FALSE)

Braced(seg) == <<"{">> \o MembersFrom(seg, 1, <<",", " ">>, TRUE) \o <<"}">>

Render(c) ==
    CASE c.wrap = "json" -> Braced(c.seg)
      [] c.wrap = "fenced" -> FenceJson \o <<NL>> \o Braced(c.seg) \o <<NL>> \o Fence
      [] c.wrap = "prose" -> <<"H", "i", ":", " ">> \o Braced(c.seg)
      [] c.wrap = "truncated" -> SubSeq(Braced(c.seg), 1, Len(Braced(c.seg)) - 2)
      [] c.wrap = "bare" -> MembersFrom(c.seg, 1, <<NL>>, TRUE)
      [] c.wrap = "nullLiteral" -> <<"n", "u", "l", "l">>

AllAbsent == [f \in Fields |-> "absent"]
TextCompletions == [wrap : TextWraps, seg : [Fields -> Segs]]
NullLiteral == [wrap |-> "nullLiteral", seg |-> AllAbsent]
NoContent == [wrap |-> "noContent", seg |-> AllAbsent]

(***************************************************************************)
(* Bounds of the model                                                     *)
(***************************************************************************)
\* requests the service receives
NReq == 2
\* Date.now() runs from 0 to MaxClock
MaxClock == 1

Reqs == 1..NReq
Clock == 0..MaxClock

(***************************************************************************)
(* The extraction service                                                  *)
(***************************************************************************)
\* limits.fileSize
FileSizeLimit == 10 * 1024 * 1024
\* text.substring(0, 500)
RawOcrLimit == 500

ImagePrefix == <<"i", "m", "a", "g", "e", "/">>
ImagePng == <<"i", "m", "a", "g", "e", "/", "p", "n", "g">>
TextPlain == <<"t", "e", "x", "t", "/", "p", "l", "a", "i", "n">>
MimeTypes == {ImagePng, TextPlain}

\* file.originalname of the uploads
OriginalNames == {"a.png"}
\* Date.now() + '-' + file.originalname, below uploads/
filename(t, originalname) == <<t, originalname>>
Paths == {filename(t, n) : t \in Clock, n \in OriginalNames}
NoPath == <<-1, "">>

\* what a client may post: nothing, or one file in a form field
NoUpload ==
    [attached |-> FALSE, field |-> "image", mimetype |-> ImagePng,
     size |-> 0, originalname |-> "a.png"]
FileUpload(field, mimetype, size, originalname) ==
    [attached |-> TRUE, field |-> field, mimetype |-> mimetype, size |-> size,
     originalname |-> originalname]
Uploads ==
    {NoUpload} \cup
    {FileUpload("other", ImagePng, 1, n) : n \in OriginalNames} \cup
    {FileUpload("image", m, sz, n) :
        m \in MimeTypes, sz \in {1, FileSizeLimit + 1}, n \in OriginalNames}

\* the text Tesseract recognises
OcrTexts == {<<"N", "e", "t">>}

\* the completions the model call returns in the service's runs
Completion(wrap, b, w, t) ==
    [wrap |-> wrap, seg |-> [bolNumber |-> b, weight |-> w, weightType |-> t]]
ServiceCompletions ==
    {NoContent, NullLiteral,
     Completion("json", "value", "value", "value"),
     Completion("fenced", "value", "null", "null"),
     Completion("json", "absent", "value", "absent"),
     Completion("prose", "value", "value", "value"),
     Completion("truncated", "null", "value", "value"),
     Completion("bare", "absent", "absent", "absent")}

\* what the try/catch of processImageForBOLData makes of each of them
Parsed == [c \in ServiceCompletions \ {NoContent} |-> parseCompletion(Render(c))]

svars == <<now, disk, pc, upload, imagePath, ocrCalls, modelCalls, ocrSaw,
           modelSaw, text, reply, fallback, res>>

NoReply == [wrap |-> "none", seg |-> AllAbsent]

\* the bodies of the responses: keys holds the names of the properties sent
NoData ==
    [bolNumber |-> Undefined, weight |-> Undefined, weightType |-> Undefined,
     rawOcrText |-> <<>>]
ErrorBody(msg) ==
    [keys |-> {"error"}, error |-> msg, details |-> "", data |-> NoData]
FailureBody(msg, details) ==
    [keys |-> {"error", "details"}, error |-> msg, details |-> details, data |-> NoData]
SuccessBody(data) ==
    [keys |-> {"success", "data"}, error |-> "", details |-> "", data |-> data]
Response(status, body) == [status |-> status, body |-> body]

\* the properties of data that JSON.stringify writes: undefined ones are left out
DataKeys(data) ==
    {f \in Fields : data[f].t # "undefined"} \cup {"rawOcrText"}

\* a faulty variant, to test C2 against: every file is accepted
fileFilterAcceptAll(mimetype) == TRUE

\* fileFilter: file.mimetype.startsWith('image/')
fileFilter(mimetype) == StartsWithAt(mimetype, 1, ImagePrefix)

\* the error-handling middleware, for an error e = [multer, code, message]
errorMiddleware(e) ==
    IF e.multer /\ e.code = "LIMIT_FILE_SIZE"
    THEN Response(400, ErrorBody("File too large"))
    ELSE Response(500, ErrorBody(e.message))

\* text.substring(0, 500)
substring500(t) == IF Len(t) > RawOcrLimit THEN SubSeq(t, 1, RawOcrLimit) ELSE t

ServerInit ==
    /\ now = 0
    /\ disk = [p \in Paths |-> 0]
    /\ pc = [r \in Reqs |-> "new"]
    /\ upload = [r \in Reqs |-> NoUpload]
    /\ imagePath = [r \in Reqs |-> NoPath]
    /\ ocrCalls = [r \in Reqs |-> 0]
    /\ modelCalls = [r \in Reqs |-> 0]
    /\ ocrSaw = [r \in Reqs |-> 0]
    /\ modelSaw = [r \in Reqs |-> 0]
    /\ text = [r \in Reqs |-> <<>>]
    /\ reply = [r \in Reqs |-> NoReply]
    /\ fallback = [r \in Reqs |-> FALSE]
    /\ res = [r \in Reqs |-> <<>>]

\* the request ends with one more response sent
Respond(r, response) ==
    /\ res' = [res EXCEPT ![r] = Append(@, response)]
    /\ pc' = [pc EXCEPT ![r] = "done"]

\* a faulty variant, to test C1 against: the catch block without its cleanup
catchKeepsFile(d, path) == d

\* the cleanup of the catch block: if (fs.existsSync(imagePath)) fs.unlinkSync(imagePath)
catchCleanup(d, path) == IF d[path] # 0 THEN [d EXCEPT ![path] = 0] ELSE d

\* a faulty variant, to test C6 against: the failure sent with status 200
catchResponseOk(errMessage) ==
    Response(200, FailureBody("Failed to process image", errMessage))

\* res.status(500).json({error: 'Failed to process image', details: error.message})
catchResponse(errMessage) ==
    Response(500, FailureBody("Failed to process image", errMessage))

\* the catch block of the handler, entered with the uploads directory as d
Catch(r, d, errMessage) ==
    /\ disk' = catchCleanup(d, imagePath[r])
    /\ Respond(r, catchResponse(errMessage))

\* time passes
Tick ==
    /\ now < MaxClock
    /\ now' = now + 1
    /\ UNCHANGED <<disk, pc, upload, imagePath, ocrCalls, modelCalls, ocrSaw,
                   modelSaw, text, reply, fallback, res>>

\* POST /api/process-image: upload.single('image') and then the handler, up
\* to its first await
Post(r, u) ==
    /\ pc[r] = "new"
    \* the requests are numbered in the order they arrive
    /\ \A q \in Reqs : q < r => pc[q] # "new"
    /\ upload' = [upload EXCEPT ![r] = u]
    /\ UNCHANGED <<now, modelCalls, ocrSaw, modelSaw, text, reply, fallback>>
    /\ IF ~u.attached
       THEN \* req.file is undefined
            /\ Respond(r, Response(400, ErrorBody("No image file provided")))
            /\ UNCHANGED <<disk, imagePath, ocrCalls>>
       ELSE IF u.field # "image"
       THEN \* multer: a file in a field single('image') does not expect
            /\ Respond(r, errorMiddleware([multer |-> TRUE, code |-> "LIMIT_UNEXPECTED_FILE",
                                           message |-> "Unexpected field"]))
            /\ UNCHANGED <<disk, imagePath, ocrCalls>>
       ELSE IF ~fileFilter(u.mimetype)
       THEN /\ Respond(r, errorMiddleware([multer |-> FALSE, code |-> "",
                                           message |-> "Only image files are allowed!"]))
            /\ UNCHANGED <<disk, imagePath, ocrCalls>>
       ELSE IF u.size > FileSizeLimit
       THEN \* multer wrote the file up to the limit and removes what it wrote
            /\ disk' = [disk EXCEPT ![filename(now, u.originalname)] = 0]
            /\ Respond(r, errorMiddleware([multer |-> TRUE, code |-> "LIMIT_FILE_SIZE",
                                           message |-> "File too large"]))
            /\ UNCHANGED <<imagePath, ocrCalls>>
       ELSE \* the file is stored, and the handler calls Tesseract.recognize
            /\ disk' = [disk EXCEPT ![filename(now, u.originalname)] = r]
            /\ imagePath' = [imagePath EXCEPT ![r] = filename(now, u.originalname)]
            /\ ocrCalls' = [ocrCalls EXCEPT ![r] = @ + 1]
            /\ pc' = [pc EXCEPT ![r] = "ocr"]
            /\ UNCHANGED res

\* Tesseract opens the image; it throws when the file is not there
OcrLoad(r) ==
    /\ pc[r] = "ocr"
    /\ UNCHANGED <<now, upload, imagePath, ocrCalls, modelCalls, modelSaw, text,
                   reply, fallback>>
    /\ IF disk[imagePath[r]] = 0
       THEN /\ Catch(r, disk, "recognize: ENOENT")
            /\ UNCHANGED ocrSaw
       ELSE /\ ocrSaw' = [ocrSaw EXCEPT ![r] = disk[imagePath[r]]]
            /\ pc' = [pc EXCEPT ![r] = "recognizing"]
            /\ UNCHANGED <<disk, res>>

\* Tesseract.recognize rejects
OcrThrow(r) ==
    /\ pc[r] = "recognizing"
    /\ Catch(r, disk, "recognize failed")
    /\ UNCHANGED <<now, upload, imagePath, ocrCalls, modelCalls, ocrSaw, modelSaw,
                   text, reply, fallback>>

\* Tesseract.recognize resolves with t; processImageForBOLData reads the
\* file and calls the model
OcrReturn(r, t) ==
    /\ pc[r] = "recognizing"
    /\ text' = [text EXCEPT ![r] = t]
    /\ UNCHANGED <<now, upload, imagePath, ocrCalls, ocrSaw, reply, fallback>>
    /\ IF disk[imagePath[r]] = 0
       THEN \* fs.readFileSync throws
            /\ Catch(r, disk, "ENOENT: open")
            /\ UNCHANGED <<modelCalls, modelSaw>>
       ELSE /\ modelSaw' = [modelSaw EXCEPT ![r] = disk[imagePath[r]]]
            /\ modelCalls' = [modelCalls EXCEPT ![r] = @ + 1]
            /\ pc' = [pc EXCEPT ![r] = "model"]
            /\ UNCHANGED <<disk, res>>

\* openai.chat.completions.create rejects
ModelThrow(r) ==
    /\ pc[r] = "model"
    /\ Catch(r, disk, "create failed")
    /\ UNCHANGED <<now, upload, imagePath, ocrCalls, modelCalls, ocrSaw, modelSaw,
                   text, reply, fallback>>

\* the data of the success response, from what processImageForBOLData returned
responseData(extractedData, t) ==
    [bolNumber |-> GetProp(extractedData, kBolNumber),
     weight |-> GetProp(extractedData, kWeight),
     weightType |-> GetProp(extractedData, kWeightType),
     rawOcrText |-> substring500(t)]

\* openai.chat.completions.create resolves with completion c; the rest of
\* processImageForBOLData and of the handler runs
ModelReturn(r, c) ==
    /\ pc[r] = "model"
    /\ reply' = [reply EXCEPT ![r] = c]
    /\ UNCHANGED <<now, upload, imagePath, ocrCalls, modelCalls, ocrSaw, modelSaw, text>>
    /\ IF c.wrap = "noContent"
       THEN \* result is null: result.replace throws inside the try, and
            \* result.match throws inside its catch
            /\ fallback' = [fallback EXCEPT ![r] = TRUE]
            /\ Catch(r, disk, "TypeError")
       ELSE LET parsed == Parsed[c]
                extractedData == parsed.data
            IN /\ fallback' = [fallback EXCEPT ![r] = parsed.fallback]
               /\ IF disk[imagePath[r]] = 0
                  THEN \* fs.unlinkSync throws
                       Catch(r, disk, "ENOENT: unlink")
                  ELSE LET unlinked == [disk EXCEPT ![imagePath[r]] = 0]
                       IN IF extractedData.t = "null"
                          THEN \* extractedData.bolNumber throws
                               Catch(r, unlinked, "TypeError")
                          ELSE /\ disk' = unlinked
                               /\ Respond(r, Response(200,
                                      SuccessBody(responseData(extractedData, text[r]))))

(***************************************************************************)
(* processImageForBOLData's handling of the completion, on its own         *)
(***************************************************************************)
pvars == <<given, returned>>

NotReturned == [done |-> FALSE, data |-> Undefined, fallback |-> FALSE]

ParseIdle ==
    /\ given = NullLiteral
    /\ returned = NotReturned

ParseInit ==
    /\ given \in TextCompletions
    /\ returned = NotReturned

ParseReply ==
    /\ ~returned.done
    /\ returned' = [done |-> TRUE,
                    data |-> parseCompletion(Render(given)).data,
                    fallback |-> parseCompletion(Render(given)).fallback]
    /\ UNCHANGED given

(***************************************************************************)
(* The upload client (App.tsx)                                             *)
(***************************************************************************)
\* images the user has at hand
NImages == 2

Images == 1..NImages
\* a File: which image it is and its declared type
Files == [img : Images, type : MimeTypes]

\* the text of an input field or the preview, as <<what, image>>: the empty
\* string, what the user typed, or what was extracted from or read of an image
Empty == <<"", 0>>
Typed == <<"typed", 0>>
Extracted(f, i) == <<f, i>>
DataUrl(i) == <<"dataUrl", i>>
\* the message shown, as <<text, detail>>
Msg(m, detail) == <<m, detail>>
NoMsg == Msg("", "")

\* the data of a success response for image i: each field a string or null
Null == <<"null", 0>>
ServiceData(i) ==
    [bolNumber : {Null, Extracted("bolNumber", i)},
     weight : {Null, Extracted("weight", i)},
     weightType : {Null, Extracted("weightType", i)}]
\* the error of a failure response
ServiceErrors == {"Failed to process image", "Only image files are allowed!"}

\* x || ''
OrEmpty(v) == IF v = Null \/ v = Empty THEN Empty ELSE v

cvars == <<bolNumber, weight, weightType, isProcessing, dragOver, message,
           uploadedImage, reading, inflight>>

ClientInit ==
    /\ bolNumber = Empty
    /\ weight = Empty
    /\ weightType = Empty
    /\ isProcessing = FALSE
    /\ dragOver = FALSE
    /\ message = NoMsg
    /\ uploadedImage = Empty
    /\ reading = {}
    /\ inflight = {}

handleDragOver ==
    /\ ~isProcessing
    /\ dragOver' = TRUE
    /\ UNCHANGED <<bolNumber, weight, weightType, isProcessing, message,
                   uploadedImage, reading, inflight>>

handleDragLeave ==
    /\ ~isProcessing
    /\ dragOver' = FALSE
    /\ UNCHANGED <<bolNumber, weight, weightType, isProcessing, message,
                   uploadedImage, reading, inflight>>

\* processImage(file), up to its await of fetch
processImage(file) ==
    /\ isProcessing' = TRUE
    /\ message' = Msg("Processing image...", "")
    /\ bolNumber' = Empty
    /\ weight' = Empty
    /\ reading' = reading \cup {file.img}
    /\ inflight' = inflight \cup {file}
    /\ UNCHANGED <<weightType, uploadedImage>>

\* handleDrop, for the files dropped (a sequence, possibly empty); the drop
\* zone takes no pointer events while isProcessing
handleDrop(files) ==
    /\ ~isProcessing
    /\ dragOver' = FALSE
    /\ IF Len(files) > 0
       THEN IF StartsWithAt(files[1].type, 1, ImagePrefix)
            THEN processImage(files[1])
            ELSE /\ message' = Msg("Please drop an image file (PNG, JPG, etc.)", "")
                 /\ UNCHANGED <<bolNumber, weight, weightType, isProcessing,
                                uploadedImage, reading, inflight>>
       ELSE UNCHANGED <<bolNumber, weight, weightType, isProcessing, message,
                        uploadedImage, reading, inflight>>

\* handleFileInput, for the files chosen; the input is rendered only while
\* not isProcessing
handleFileInput(files) ==
    /\ ~isProcessing
    /\ IF Len(files) > 0
       THEN /\ processImage(files[1])
            /\ UNCHANGED dragOver
       ELSE UNCHANGED cvars

\* reader.onload
readerOnload(i) ==
    /\ i \in reading
    /\ reading' = reading \ {i}
    /\ uploadedImage' = DataUrl(i)
    /\ UNCHANGED <<bolNumber, weight, weightType, isProcessing, dragOver, message,
                   inflight>>

\* the fetch resolves with {success: true, data}
fetchSuccess(file, data) ==
    /\ file \in inflight
    /\ inflight' = inflight \ {file}
    /\ bolNumber' = OrEmpty(data.bolNumber)
    /\ weight' = OrEmpty(data.weight)
    /\ weightType' = OrEmpty(data.weightType)
    /\ message' =
          IF OrEmpty(data.bolNumber) = Empty /\ OrEmpty(data.weight) = Empty
          THEN Msg("No BOL number or weight found in the image. Please try a clearer image.", "")
          ELSE Msg("Image processed successfully!", "")
    /\ isProcessing' = FALSE
    /\ UNCHANGED <<dragOver, uploadedImage, reading>>

\* the fetch resolves with a body without success: {error}
fetchServiceError(file, error) ==
    /\ file \in inflight
    /\ inflight' = inflight \ {file}
    /\ message' = Msg("Error: ", error)
    /\ isProcessing' = FALSE
    /\ UNCHANGED <<bolNumber, weight, weightType, dragOver, uploadedImage, reading>>

\* fetch rejects, or the body is no JSON
fetchThrow(file) ==
    /\ file \in inflight
    /\ inflight' = inflight \ {file}
    /\ message' = Msg("Failed to process image: ", "Failed to fetch")
    /\ isProcessing' = FALSE
    /\ UNCHANGED <<bolNumber, weight, weightType, dragOver, uploadedImage, reading>>

\* a faulty variant, to test C10 against: clearData without setMessage('')
clearDataKeepsMessage ==
    /\ bolNumber # Empty \/ weight # Empty \/ uploadedImage # Empty
    /\ bolNumber' = Empty
    /\ weight' = Empty
    /\ weightType' = Empty
    /\ uploadedImage' = Empty
    /\ UNCHANGED <<message, isProcessing, dragOver, reading, inflight>>

\* clearData; the Clear All button is rendered when a field or the preview is set
clearData ==
    /\ bolNumber # Empty \/ weight # Empty \/ uploadedImage # Empty
    /\ bolNumber' = Empty
    /\ weight' = Empty
    /\ weightType' = Empty
    /\ message' = NoMsg
    /\ uploadedImage' = Empty
    /\ UNCHANGED <<isProcessing, dragOver, reading, inflight>>

\* the user edits the BOL number input
editBolNumber(v) ==
    /\ bolNumber # v
    /\ bolNumber' = v
    /\ UNCHANGED <<weight, weightType, isProcessing, dragOver, message,
                   uploadedImage, reading, inflight>>

\* the user edits the weight input
editWeight(v) ==
    /\ weight # v
    /\ weight' = v
    /\ UNCHANGED <<bolNumber, weightType, isProcessing, dragOver, message,
                   uploadedImage, reading, inflight>>

FileLists == {<<>>} \cup {<<f>> : f \in Files}

(***************************************************************************)
(* Specifications                                                          *)
(***************************************************************************)
vars == <<svars, pvars, cvars>>

Init == ServerInit /\ ParseIdle /\ ClientInit

\* the service, handling NReq requests; the client and the parse stand still
Next ==
    \/ Tick /\ UNCHANGED <<pvars, cvars>>
    \/ \E r \in Reqs, u \in Uploads : Post(r, u) /\ UNCHANGED <<pvars, cvars>>
    \/ \E r \in Reqs : OcrLoad(r) /\ UNCHANGED <<pvars, cvars>>
    \/ \E r \in Reqs : OcrThrow(r) /\ UNCHANGED <<pvars, cvars>>
    \/ \E r \in Reqs, t \in OcrTexts : OcrReturn(r, t) /\ UNCHANGED <<pvars, cvars>>
    \/ \E r \in Reqs : ModelThrow(r) /\ UNCHANGED <<pvars, cvars>>
    \/ \E r \in Reqs, c \in ServiceCompletions :
          ModelReturn(r, c) /\ UNCHANGED <<pvars, cvars>>
Spec == Init /\ [][Next]_vars

\* the handling of one completion, any of TextCompletions
ParseStart == ServerInit /\ ParseInit /\ ClientInit
ParseNext == ParseReply /\ UNCHANGED <<svars, cvars>>
ParseSpec == ParseStart /\ [][ParseNext]_vars

\* the client; the service stands still
ClientStep ==
    \/ handleDragOver /\ UNCHANGED <<svars, pvars>>
    \/ handleDragLeave /\ UNCHANGED <<svars, pvars>>
    \/ \E fs \in FileLists : handleDrop(fs) /\ UNCHANGED <<svars, pvars>>
    \/ \E fs \in FileLists : handleFileInput(fs) /\ UNCHANGED <<svars, pvars>>
    \/ \E i \in Images : readerOnload(i) /\ UNCHANGED <<svars, pvars>>
    \/ \E f \in Files : \E d \in ServiceData(f.img) :
          fetchSuccess(f, d) /\ UNCHANGED <<svars, pvars>>
    \/ \E f \in Files, e \in ServiceErrors :
          fetchServiceError(f, e) /\ UNCHANGED <<svars, pvars>>
    \/ \E f \in Files : fetchThrow(f) /\ UNCHANGED <<svars, pvars>>
    \/ clearData /\ UNCHANGED <<svars, pvars>>
    \/ \E v \in {Empty, Typed} : editBolNumber(v) /\ UNCHANGED <<svars, pvars>>
    \/ \E v \in {Empty, Typed} : editWeight(v) /\ UNCHANGED <<svars, pvars>>
ClientSpec == Init /\ [][ClientStep]_vars

(***************************************************************************)
(* Properties of the service                                               *)
(***************************************************************************)
InFlight == {"ocr", "recognizing", "model"}
Answered(r) == pc[r] = "done"
\* request r's only response
TheResponse(r) == res[r][1]
IsSuccess(response) ==
    response.status = 200 /\ response.body.keys = {"success", "data"}
IsFailure(response, details) ==
    response = [status |-> 500,
                body |-> [keys |-> {"error", "details"},
                          error |-> "Failed to process image",
                          details |-> details, data |-> NoData]]

\* C1: when a request whose upload was stored is answered, with 200 or with
\* 500, the file at its path is not in the uploads directory, and the
\* directory never holds a file that no request still being handled has as
\* its path.
C1_TempFileRemoved ==
    [][/\ \A r \in Reqs :
            (pc[r] # "done" /\ pc'[r] = "done" /\ imagePath'[r] # NoPath)
                => disk'[imagePath'[r]] = 0
       /\ \A p \in Paths :
            disk'[p] # 0 => \E r \in Reqs : pc'[r] \in InFlight /\ imagePath'[r] = p
      ]_vars

\* one stored upload was answered with 500 and another with 200, and the
\* uploads directory is empty
C1_Witness ==
    \E r, q \in Reqs :
        /\ Answered(r) /\ imagePath[r] # NoPath /\ TheResponse(r).status = 500
        /\ Answered(q) /\ imagePath[q] # NoPath /\ TheResponse(q).status = 200
        /\ \A p \in Paths : disk[p] = 0

\* the uploads the service rejects at input
NoFile(u) == ~u.attached
NotAnImage(u) == u.attached /\ ~StartsWithAt(u.mimetype, 1, ImagePrefix)
TooLarge(u) == u.attached /\ u.size > 10 * 1024 * 1024
RejectedAtInput(u) == NoFile(u) \/ NotAnImage(u) \/ TooLarge(u)

\* C2: a request with no file, with a file whose MIME type does not start
\* with image/, or with a file over 10 MB is answered at once with one error
\* response and neither Tesseract nor the model is called for it; with no
\* file the response is 400 with error 'No image file provided'.
C2_RejectedAtInput ==
    \A r \in Reqs :
        (pc[r] # "new" /\ RejectedAtInput(upload[r])) =>
            /\ Answered(r)
            /\ ocrCalls[r] = 0
            /\ modelCalls[r] = 0
            /\ Len(res[r]) = 1
            /\ TheResponse(r).status \in {400, 500}
            /\ TheResponse(r).body.keys = {"error"}
            /\ NoFile(upload[r]) =>
                  /\ TheResponse(r).status = 400
                  /\ TheResponse(r).body.error = "No image file provided"

\* one request came without a file and another with a text/plain file
C2_Witness ==
    \E r, q \in Reqs :
        /\ Answered(r) /\ NoFile(upload[r])
        /\ Answered(q) /\ NotAnImage(upload[q])

\* the completions that are text but not JSON, with or without fences
NotJson(c) == c.wrap \in {"prose", "truncated", "bare"}

\* C3: a request whose OCR call and model call both returned, the completion
\* being text that is not valid JSON, is answered with a 200 success result.
C3_NonJsonStillSucceeds ==
    \A r \in Reqs :
        (Answered(r) /\ NotJson(reply[r])) =>
            /\ Len(res[r]) = 1
            /\ IsSuccess(TheResponse(r))

(***************************************************************************)
(* Properties of the handling of a completion                              *)
(***************************************************************************)
\* is f the last of the fields the completion mentions
LastMentioned(c, f) ==
    LET at == CHOOSE i \in 1..Len(FieldOrder) : FieldOrder[i] = f
    IN \A j \in (at + 1)..Len(FieldOrder) : c.seg[FieldOrder[j]] = "absent"

\* does "f": "value", with a value of one character or more and both its
\* quotes, occur in the completion
PatternOccurs(c, f) ==
    /\ c.seg[f] = "value"
    /\ ~(c.wrap = "truncated" /\ LastMentioned(c, f))

\* C4: for a completion that is not valid JSON the function returns by the
\* fallback, and each of the three fields is the quoted value after its own
\* key when that pattern occurs in the completion and null when it does not,
\* whatever the completion holds for the other two fields.
C4_IndependentExtraction ==
    (returned.done /\ NotJson(given)) =>
        /\ returned.fallback
        /\ \A f \in Fields :
              GetProp(returned.data, KeyOf(f)) =
                 IF PatternOccurs(given, f) THEN [t |-> "str", s |-> ValueOf(f), m |-> <<>>]
                 ELSE [t |-> "null", s |-> <<>>, m |-> <<>>]

\* a completion that is not JSON, without "weight" and with "weightType":
\* weight came back null and weightType with its value
C4_Witness ==
    /\ returned.done
    /\ returned.fallback
    /\ given.wrap = "prose"
    /\ given.seg["weight"] = "absent"
    /\ given.seg["weightType"] = "value"
    /\ GetProp(returned.data, kWeight).t = "null"
    /\ GetProp(returned.data, kWeightType).s = <<"N", "e", "t">>

(***************************************************************************)
(* Properties of the service, continued                                    *)
(***************************************************************************)
\* the completions that are JSON of the shape {bolNumber, weight, weightType},
\* bare or between code fences
ExpectedShape(c) ==
    /\ c.wrap \in {"json", "fenced"}
    /\ \A f \in Fields : c.seg[f] # "absent"

\* the value the completion's JSON gives field f
JsonField(c, f) ==
    CASE c.seg[f] = "null" -> [t |-> "null", s |-> <<>>, m |-> <<>>]
      [] c.seg[f] = "value" -> [t |-> "str", s |-> ValueOf(f), m |-> <<>>]
      [] c.seg[f] = "empty" -> [t |-> "str", s |-> <<>>, m |-> <<>>]

\* C5: for a completion that is, once its fences are removed, JSON of the
\* expected shape, the fallback is not applied and the three fields of the
\* success response are the fields of that JSON, a null staying null.
C5_ValidJsonPassedThrough ==
    \A r \in Reqs :
        (Answered(r) /\ ExpectedShape(reply[r])) =>
            /\ ~fallback[r]
            /\ IsSuccess(TheResponse(r)) =>
                  \A f \in Fields :
                      TheResponse(r).body.data[f] = JsonField(reply[r], f)

\* a fenced completion with two null fields was answered with success, the
\* nulls still null
C5_Witness ==
    \E r \in Reqs :
        /\ Answered(r)
        /\ reply[r].wrap = "fenced"
        /\ reply[r].seg["weight"] = "null"
        /\ IsSuccess(TheResponse(r))
        /\ TheResponse(r).body.data["weight"].t = "null"
        /\ TheResponse(r).body.data["bolNumber"].s = <<"B", "7">>

\* the messages of the errors the external calls throw
OcrErrors == {"recognize failed", "recognize: ENOENT"}
ModelErrors == {"create failed"}
Thrown(r) == TheResponse(r).body.details

\* C6: a request whose OCR call or model call threw is answered once, with
\* status 500 and the body {error: 'Failed to process image', details}, the
\* same for both; each request calls Tesseract at most once and the model at
\* most once, and does not call the model when the OCR call threw.
C6_UniformFailure ==
    \A r \in Reqs :
        /\ ocrCalls[r] <= 1
        /\ modelCalls[r] <= 1
        /\ modelCalls[r] <= ocrCalls[r]
        /\ (Answered(r) /\ Thrown(r) \in OcrErrors \cup ModelErrors) =>
              /\ Len(res[r]) = 1
              /\ IsFailure(TheResponse(r), Thrown(r))
        /\ (Answered(r) /\ Thrown(r) \in OcrErrors) => modelCalls[r] = 0
        /\ (Answered(r) /\ Thrown(r) \in ModelErrors) =>
              ocrCalls[r] = 1 /\ modelCalls[r] = 1

\* one request failed in the OCR call and another in the model call
C6_Witness ==
    \E r, q \in Reqs :
        /\ Answered(r) /\ Thrown(r) = "recognize failed"
        /\ Answered(q) /\ Thrown(q) = "create failed"

\* C7: no request gets a second response, a request is answered once its
\* external calls have returned, and a success response carries all of
\* bolNumber, weight, weightType and rawOcrText.
C7_OneCompleteResponse ==
    \A r \in Reqs :
        /\ Len(res[r]) <= 1
        /\ (pc[r] \notin InFlight /\ pc[r] # "new") => Len(res[r]) = 1
        /\ (Answered(r) /\ TheResponse(r).status = 200) =>
              /\ IsSuccess(TheResponse(r))
              /\ DataKeys(TheResponse(r).body.data) =
                    {"bolNumber", "weight", "weightType", "rawOcrText"}

(***************************************************************************)
(* Properties of the client                                                *)
(***************************************************************************)
\* C8: the client sends a request for no file whose declared type does not
\* start with image/, whether the file was dropped or chosen.
C8_NonImageNotSent ==
    \A f \in inflight : StartsWithAt(f.type, 1, ImagePrefix)

\* C9: while the request for an image is in flight, and so after whatever
\* outcome it has, none of the three fields shows a value extracted from
\* another image.
C9_NoStaleField ==
    \A f \in inflight :
        \A shown \in {bolNumber, weight, weightType} : shown[2] \in {0, f.img}

\* everything the clear action empties is empty
AllEmpty ==
    /\ bolNumber = Empty
    /\ weight = Empty
    /\ weightType = Empty
    /\ message = NoMsg
    /\ uploadedImage = Empty
Quiescent == inflight = {} /\ reading = {}
UserSubmits == \E fs \in FileLists : handleDrop(fs) \/ handleFileInput(fs)
UserEdits == \E v \in {Empty, Typed} : editBolNumber(v) \/ editWeight(v)

\* C10, as stated: the clear action empties the three fields, the message
\* and the preview and sends no request, and once they are empty only the
\* user's submitting a file or editing a field changes that.
C10_StaysEmpty ==
    [][/\ clearData => (AllEmpty' /\ inflight' = inflight)
       /\ (AllEmpty /\ ~AllEmpty') => (UserSubmits \/ UserEdits)
      ]_vars

\* C10, amended: the clear action empties the three fields, the message and
\* the preview and sends no request; with no request in flight and no
\* preview being read, only the user's submitting a file or editing a field
\* changes that.
C10_StaysEmptyWhenQuiescent ==
    [][/\ clearData => (AllEmpty' /\ inflight' = inflight)
       /\ (AllEmpty /\ Quiescent /\ ~AllEmpty') => (UserSubmits \/ UserEdits)
      ]_vars

\* everything was cleared while a request was in flight
C10_Witness ==
    /\ AllEmpty
    /\ inflight # {}

(***************************************************************************)
(* Properties of the uploads directory                                     *)
(***************************************************************************)
\* the messages of the errors a file that is not there raises
MissingFileErrors == {"recognize: ENOENT", "ENOENT: open", "ENOENT: unlink"}

\* C11: two requests being handled at the same time never have the same
\* temporary file path, Tesseract and readFileSync read for a request only
\* the bytes that request uploaded, the file of a request being handled is
\* in the uploads directory with its own bytes, and no request is answered
\* with the error of a missing file.
C11_UniqueTempNames ==
    \A r \in Reqs :
        /\ \A q \in Reqs \ {r} :
              (pc[r] \in InFlight /\ pc[q] \in InFlight) => imagePath[r] # imagePath[q]
        /\ ocrSaw[r] \in {0, r}
        /\ modelSaw[r] \in {0, r}
        /\ pc[r] \in InFlight => disk[imagePath[r]] = r
        /\ (Answered(r) /\ imagePath[r] # NoPath) =>
              TheResponse(r).body.details \notin MissingFileErrors
====
